---- MODULE Spec2Model ----
(***************************************************************************)
(* A model of the task planner: the occurrence rule (shouldShowTask), the  *)
(* view composer (sortedVisibleTasks) and the mutation handlers            *)
(* (toggle, delete, move, add, edit) of the three revisions of the App     *)
(* component found in the repository (src/App.tsx, src/unnamed/part_000    *)
(* and src/unnamed/part_001), with the alarm engine (checkAlarms), the     *)
(* worker's ticker (step), the streak of the History view, the completion  *)
(* percentage, the initialization effect that loads the collection, the   *)
(* type changes and the effects of a firing alarm (sound loop, 60 s timer, *)
(* wake lock, alert, system notification).                                 *)
(*                                                                         *)
(* Representation.                                                         *)
(*   - An ISO date string "YYYY-MM-DD" is the tuple <<y, m, d>> with the   *)
(*     month 1-based, as getLocalISO prints it; padStart(2,'0') makes all  *)
(*     strings the same width, so the string comparison of the code is     *)
(*     the lexicographic comparison of the tuples.                         *)
(*   - A JavaScript Date at local midnight is its day number (days since   *)
(*     1970-01-01), built by MakeDay as ECMAScript does, so that           *)
(*     setDate(getDate() + n) is real calendar arithmetic.                 *)
(*   - A time string "HH:mm" is <<h, m>>; an absent time is <<>>.          *)
(*   - An absent weeklyDay (undefined) is -1; a null id is 0.              *)
(***************************************************************************)
EXTENDS Integers, Sequences, FiniteSets, TLC

VARIABLES
    revision,             \* which revision of App is running
    clock,                \* the host clock's local date, as a Date (day number)
    nowMs,                \* Date.now(), the source of task ids
    tasks,                \* useState<Task[]>: the collection, in stored order
    selectedDate,         \* useState<string>
    currentView,          \* useState<ViewMode>
    historyDrilldownDate, \* useState<string | null>, <<>> for null
    deleteModalId,        \* useState<number | null>, 0 for null
    moveModalId,          \* useState<number | null>, 0 for null
    editingTask,          \* useState<Task | null>: <<>> for null, <<t>> for a draft
    undoAction,           \* part_000: <<>> for null, <<oldTasks>> for a pending undo
    storedTasks,          \* the 'pro_tasks' item of localStorage, as the init effect reads it
    phase,                \* "mounting" before the init effect, then "running" or "crashed";
                          \* "unmounted" after the cleanup
    currentHM,            \* the host clock's local time of day, <<h, m>>
    suspended,            \* the process is suspended: no timer callback runs
    ticked,               \* checkAlarms has run since the minute began
    notifiedTasksRef,     \* useRef<Set<string>>: the notification keys
    activeAlert,          \* useState<Task | null>: <<>> for null, <<t>> for an alert
    alarmLog,             \* the alarms raised so far, one key per call, in order
    worker,               \* the ticker: Date.now() in ms, expected, the time the pending
                          \* timeout is due (-1: none) and the 'tick' messages posted
    capabilities,         \* what the browser offers: AudioContext, navigator.wakeLock,
                          \* a granted Notification permission
    stopAlarmRef,         \* useRef<(() => void) | null>: 0 for null, else the stop
                          \* function of the loop started by the h-th alarm
    wakeLockRef,          \* part_001 useRef<WakeLockSentinel | null>: 0 for null, else
                          \* the sentinel requested by the h-th alarm
    host                  \* the browser's side of the alarms: the loops playing, the
                          \* pending 60 s timers, wake lock requests and sentinels

\* the store, the alarm engine and the ticker
\* the effects of a firing alarm
fxVars == <<capabilities, stopAlarmRef, wakeLockRef, host>>

sysVars == <<storedTasks, phase, currentHM, suspended, ticked, notifiedTasksRef,
             activeAlert, alarmLog, worker, fxVars>>

vars == <<revision, clock, nowMs, tasks, selectedDate, currentView,
          historyDrilldownDate, deleteModalId, moveModalId, editingTask, undoAction,
          sysVars>>

-----------------------------------------------------------------------------
(* Bounds of the model *)

\* the collection holds at most this many tasks
MaxTasks == 1
\* the clock passes at most this many midnights
MaxMidnights == 1
\* completions and hiddenDates hold at most this many entries each
MaxMarks == 2

-----------------------------------------------------------------------------
(* JavaScript Date, restricted to local midnights *)

Years == 2023..2025

InLeapYear(y) == (y % 4 = 0 /\ y % 100 # 0) \/ y % 400 = 0

\* ECMAScript DayFromYear
DayFromYear(y) ==
    365 * (y - 1970) + ((y - 1969) \div 4) - ((y - 1901) \div 100) + ((y - 1601) \div 400)

\* days before month m0 (0-based) in a common year
MonthStart == <<0, 31, 59, 90, 120, 151, 181, 212, 243, 273, 304, 334>>

DayWithinYearOfMonth(y, m0) ==
    MonthStart[m0 + 1] + (IF m0 >= 2 /\ InLeapYear(y) THEN 1 ELSE 0)

\* ECMAScript MakeDay(year, month, date): the date may lie outside the month
MakeDay(y, m0, dt) == DayFromYear(y) + DayWithinYearOfMonth(y, m0) + dt - 1

\* ECMAScript YearFromTime, MonthFromTime and DateFromTime of a day number
YearFromDay(date) ==
    CHOOSE y \in Years : DayFromYear(y) <= date /\ date < DayFromYear(y + 1)

MonthFromDay(date) ==
    LET y == YearFromDay(date)
        dy == date - DayFromYear(y)
    IN  CHOOSE m0 \in 0..11 :
            /\ DayWithinYearOfMonth(y, m0) <= dy
            /\ (m0 = 11 \/ dy < DayWithinYearOfMonth(y, m0 + 1))

DateFromDay(date) ==
    LET y == YearFromDay(date)
    IN  date - DayFromYear(y) - DayWithinYearOfMonth(y, MonthFromDay(date)) + 1

\* the calendar fields of every day the runs can reach, computed once
CalendarDays == (DayFromYear(2024) - 40)..(DayFromYear(2024) + 80)

Calendar ==
    [date \in CalendarDays |->
        [year |-> YearFromDay(date), month |-> MonthFromDay(date), date |-> DateFromDay(date)]]

getFullYear(date) == Calendar[date].year

getMonth(date) == Calendar[date].month

getDate(date) == Calendar[date].date

\* ECMAScript WeekDay: 1970-01-01 was a Thursday (4); Sunday is 0
getDay(date) == (date + 4) % 7

\* new Date(year, monthIndex, day)
newDate(y, m0, dt) == MakeDay(y, m0, dt)

\* date.setDate(n): the same year and month, day n, normalised
setDate(date, n) == MakeDay(getFullYear(date), getMonth(date), n)

-----------------------------------------------------------------------------
(* utils *)

getLocalISO(date) == <<getFullYear(date), getMonth(date) + 1, getDate(date)>>

parseLocalDate(dateStr) == newDate(dateStr[1], dateStr[2] - 1, dateStr[3])

\* string comparison of two equal-width digit strings: -1, 0 or 1
RECURSIVE localeCompare(_, _)
localeCompare(a, b) ==
    IF a = <<>> \/ b = <<>>
    THEN (IF a = b THEN 0 ELSE IF a = <<>> THEN -1 ELSE 1)
    ELSE IF Head(a) < Head(b) THEN -1
    ELSE IF Head(a) > Head(b) THEN 1
    ELSE localeCompare(Tail(a), Tail(b))

\* a < b and a <= b on strings
StrLT(a, b) == localeCompare(a, b) < 0
StrLE(a, b) == localeCompare(a, b) <= 0

\* Array.prototype.includes / indexOf (1-based, 0 when absent)
includes(arr, x) == \E i \in 1..Len(arr) : arr[i] = x

indexOf(arr, x) ==
    IF includes(arr, x)
    THEN CHOOSE i \in 1..Len(arr) : arr[i] = x /\ \A j \in 1..(i - 1) : arr[j] # x
    ELSE 0

\* Array.prototype.filter with the predicate "element # x"
RECURSIVE filterNot(_, _)
filterNot(arr, x) ==
    IF arr = <<>> THEN <<>>
    ELSE IF Head(arr) = x THEN filterNot(Tail(arr), x)
    ELSE <<Head(arr)>> \o filterNot(Tail(arr), x)

\* a copy of arr with the element at index i spliced out
splice1(arr, i) == [k \in 1..(Len(arr) - 1) |-> IF k < i THEN arr[k] ELSE arr[k + 1]]

\* shouldShowTask with the rollover not tied to the today view
shouldShowTask_rolloverAnyDate(task, dateStr, todayStr) ==
    IF includes(task.hiddenDates, dateStr) THEN FALSE
    ELSE IF task.type = "one-time" THEN
        IF task.dateCreated = dateStr THEN TRUE
        ELSE IF /\ StrLT(task.dateCreated, dateStr)
                /\ StrLT(task.dateCreated, todayStr)
                /\ ~includes(task.completions, task.dateCreated)
             THEN TRUE
        ELSE FALSE
    ELSE IF task.type = "recurring" THEN StrLE(task.dateCreated, dateStr)
    ELSE IF task.type = "weekly" THEN
        /\ task.weeklyDay = getDay(parseLocalDate(dateStr))
        /\ StrLE(task.dateCreated, dateStr)
    ELSE FALSE

\* shouldShowTask without the hiddenDates override
shouldShowTask_ignoreHidden(task, dateStr, todayStr) ==
    IF FALSE THEN FALSE
    ELSE IF task.type = "one-time" THEN
        IF task.dateCreated = dateStr THEN TRUE
        ELSE IF /\ dateStr = todayStr
                /\ StrLT(task.dateCreated, todayStr)
                /\ ~includes(task.completions, task.dateCreated)
             THEN TRUE
        ELSE FALSE
    ELSE IF task.type = "recurring" THEN StrLE(task.dateCreated, dateStr)
    ELSE IF task.type = "weekly" THEN
        /\ task.weeklyDay = getDay(parseLocalDate(dateStr))
        /\ StrLE(task.dateCreated, dateStr)
    ELSE FALSE

\* shouldShowTask with a recurring task starting the day after dateCreated
shouldShowTask_recurringStrict(task, dateStr, todayStr) ==
    IF includes(task.hiddenDates, dateStr) THEN FALSE
    ELSE IF task.type = "one-time" THEN
        IF task.dateCreated = dateStr THEN TRUE
        ELSE IF /\ dateStr = todayStr
                /\ StrLT(task.dateCreated, todayStr)
                /\ ~includes(task.completions, task.dateCreated)
             THEN TRUE
        ELSE FALSE
    ELSE IF task.type = "recurring" THEN StrLT(task.dateCreated, dateStr)
    ELSE IF task.type = "weekly" THEN
        /\ task.weeklyDay = getDay(parseLocalDate(dateStr))
        /\ StrLE(task.dateCreated, dateStr)
    ELSE FALSE

\* shouldShowTask with a weekly task due before its dateCreated
shouldShowTask_weeklyAnyStart(task, dateStr, todayStr) ==
    IF includes(task.hiddenDates, dateStr) THEN FALSE
    ELSE IF task.type = "one-time" THEN
        IF task.dateCreated = dateStr THEN TRUE
        ELSE IF /\ dateStr = todayStr
                /\ StrLT(task.dateCreated, todayStr)
                /\ ~includes(task.completions, task.dateCreated)
             THEN TRUE
        ELSE FALSE
    ELSE IF task.type = "recurring" THEN StrLE(task.dateCreated, dateStr)
    ELSE IF task.type = "weekly" THEN
        /\ task.weeklyDay = getDay(parseLocalDate(dateStr))
        /\ TRUE
    ELSE FALSE

\* the occurrence rule; todayStr is the getLocalISO() the function reads
shouldShowTask(task, dateStr, todayStr) ==
    IF includes(task.hiddenDates, dateStr) THEN FALSE
    ELSE IF task.type = "one-time" THEN
        IF task.dateCreated = dateStr THEN TRUE
        ELSE IF /\ dateStr = todayStr
                /\ StrLT(task.dateCreated, todayStr)
                /\ ~includes(task.completions, task.dateCreated)
             THEN TRUE
        ELSE FALSE
    ELSE IF task.type = "recurring" THEN StrLE(task.dateCreated, dateStr)
    ELSE IF task.type = "weekly" THEN
        /\ task.weeklyDay = getDay(parseLocalDate(dateStr))
        /\ StrLE(task.dateCreated, dateStr)
    ELSE FALSE

-----------------------------------------------------------------------------
(* Inputs the user can give *)

Revisions == {"App", "part_000", "part_001"}

TASK_TYPES == {"one-time", "recurring", "weekly"}

\* the date the host clock shows when the application starts
StartDate == <<2024, 1, 30>>

\* the weekdays offered by the day-of-week selectors that the runs pick from
WeeklyDayChoices == {3}

\* the times the time pickers are set to; <<>> is "no time"
TimeChoices == {<<>>, <<9, 0>>}

\* the texts typed into the task name field
TextChoices == {"", "task"}

\* the heatmap cells clicked, as days before today (the heatmap shows 0..27)
DrillDownCells == {1}

\* the dates picked in the sidebar calendar
SidebarDates == {<<2024, 1, 29>>}

-----------------------------------------------------------------------------
(* Derived values of a render *)

todayStr == getLocalISO(clock)

\* part_000 / part_001: the date the list is anchored at
effectiveViewDate ==
    IF currentView = "week" THEN todayStr
    ELSE IF currentView = "history" /\ historyDrilldownDate # <<>> THEN historyDrilldownDate
    ELSE selectedDate

\* App.tsx: the date passed to the list for its completion marks
contextDate ==
    IF currentView # "week" /\ currentView = "history" /\ historyDrilldownDate # <<>>
    THEN historyDrilldownDate
    ELSE selectedDate

\* the date toggle, delete and move act on: App.tsx reads selectedDate,
\* the later revisions read effectiveViewDate
targetDate == IF revision = "App" THEN selectedDate ELSE effectiveViewDate

\* selectedDate > todayStr ? 'backward' : 'forward'
moveDirection == IF StrLT(todayStr, selectedDate) THEN "backward" ELSE "forward"

\* dateStr + i days, as the week loop computes it
plusDays(dateStr, i) ==
    LET d == parseLocalDate(dateStr) IN getLocalISO(setDate(d, getDate(d) + i))

\* the ids of the tasks due on one of the 7 days from viewStart
weekIds(ts, viewStart, today) ==
    {ts[k].id : k \in {j \in 1..Len(ts) :
        \E i \in 0..6 : shouldShowTask(ts[j], plusDays(viewStart, i), today)}}

\* the tasks the list shows, in stored order (before sorting)
visibleOf(rev, ts, view, selected, drill, today) ==
    LET viewStart == IF rev = "App" THEN selected
                     ELSE IF view = "week" THEN today
                     ELSE IF view = "history" /\ drill # <<>> THEN drill
                     ELSE selected
        dayStart  == IF rev = "App" /\ view = "history" /\ drill # <<>> THEN drill
                     ELSE viewStart
    IN  IF view = "week"
        THEN LET ids == weekIds(ts, viewStart, today)
             IN  SelectSeq(ts, LAMBDA t : t.id \in ids)
        ELSE SelectSeq(ts, LAMBDA t : shouldShowTask(t, dayStart, today))

visible == visibleOf(revision, tasks, currentView, selectedDate, historyDrilldownDate, todayStr)

\* getSortDate of the sort comparators: the date a task is grouped under
getSortDate(rev, t, viewStart) ==
    IF t.type = "one-time" THEN t.dateCreated
    ELSE IF t.type = "recurring" THEN
        IF rev = "App" THEN viewStart
        ELSE IF StrLT(t.dateCreated, viewStart) THEN viewStart ELSE t.dateCreated
    ELSE IF t.type = "weekly" /\ t.weeklyDay # -1 THEN
        LET start      == parseLocalDate(viewStart)
            currentDay == getDay(start)
            diff       == (t.weeklyDay - currentDay + 7) % 7
        IN  getLocalISO(setDate(start, getDate(start) + diff))
    ELSE t.dateCreated

\* a.time || '23:59'
timeOrLast(t) == IF t.time = <<>> THEN <<23, 59>> ELSE t.time

\* the sign of id difference a.id - b.id
idDiff(a, b) == IF a.id < b.id THEN -1 ELSE IF a.id > b.id THEN 1 ELSE 0

\* the comparators passed to Array.prototype.sort:
\*   "part_001"  date, then time with untimed as 23:59, then id
\*   "part_000"  date, then 0 (array order)
\*   "App-week"  date, then time with untimed last, then 0
\*   "App-timed" time only (timedActive)
comparator(mode, a, b, viewStart) ==
    LET rev   == IF mode \in {"App-week", "App-timed"} THEN "App" ELSE mode
        dateA == getSortDate(rev, a, viewStart)
        dateB == getSortDate(rev, b, viewStart)
    IN  IF mode = "App-timed" THEN localeCompare(a.time, b.time)
        ELSE IF dateA # dateB THEN localeCompare(dateA, dateB)
        ELSE IF mode = "part_001" THEN
            IF timeOrLast(a) # timeOrLast(b)
            THEN localeCompare(timeOrLast(a), timeOrLast(b))
            ELSE idDiff(a, b)
        ELSE IF mode = "part_000" THEN 0
        ELSE IF a.time # <<>> /\ b.time # <<>> THEN localeCompare(a.time, b.time)
        ELSE IF a.time # <<>> THEN -1
        ELSE IF b.time # <<>> THEN 1
        ELSE 0

\* Array.prototype.sort is stable: x goes behind every element that does not
\* sort after it
RECURSIVE insertSorted(_, _, _, _)
insertSorted(mode, sorted, x, viewStart) ==
    IF sorted = <<>> THEN <<x>>
    ELSE IF comparator(mode, sorted[Len(sorted)], x, viewStart) <= 0
    THEN Append(sorted, x)
    ELSE Append(insertSorted(mode, SubSeq(sorted, 1, Len(sorted) - 1), x, viewStart),
                sorted[Len(sorted)])

RECURSIVE sort(_, _, _)
sort(mode, arr, viewStart) ==
    IF arr = <<>> THEN <<>>
    ELSE insertSorted(mode, sort(mode, SubSeq(arr, 1, Len(arr) - 1), viewStart),
                      arr[Len(arr)], viewStart)

\* the list handed to TaskList: visible.sort(...) in part_000 / part_001,
\* sortedVisibleTasks in App.tsx
sortedVisibleOf(rev, ts, view, selected, drill, today) ==
    LET vis == visibleOf(rev, ts, view, selected, drill, today)
    IN  IF rev # "App"
        THEN LET viewStart == IF view = "week" THEN today
                              ELSE IF view = "history" /\ drill # <<>> THEN drill
                              ELSE selected
             IN  sort(rev, vis, viewStart)
        ELSE LET visibleTasks == IF view = "week" THEN sort("App-week", vis, selected)
                                 ELSE vis
                 ctx          == IF view # "week" /\ view = "history" /\ drill # <<>>
                                 THEN drill ELSE selected
                 activeTasks    == SelectSeq(visibleTasks,
                                       LAMBDA t : ~includes(t.completions, ctx))
                 completedTasks == SelectSeq(visibleTasks,
                                       LAMBDA t : includes(t.completions, ctx))
                 timedActive    == sort("App-timed",
                                       SelectSeq(activeTasks, LAMBDA t : t.time # <<>>),
                                       selected)
                 untimedActive  == SelectSeq(activeTasks, LAMBDA t : t.time = <<>>)
             IN  timedActive \o untimedActive \o completedTasks

sortedVisibleTasks ==
    sortedVisibleOf(revision, tasks, currentView, selectedDate, historyDrilldownDate,
                    todayStr)

\* the task list is rendered (not the history overview), and no modal covers it
listShown == ~(currentView = "history" /\ historyDrilldownDate = <<>>)

noModal == editingTask = <<>> /\ deleteModalId = 0 /\ moveModalId = 0

\* prev.map(t => t.id !== id ? t : f(t)); mapped[k] is f(ts[k])
mapId(ts, id, mapped) == [k \in 1..Len(ts) |-> IF ts[k].id # id THEN ts[k] ELSE mapped[k]]

-----------------------------------------------------------------------------
(* The per-task bodies of the mutation handlers *)

\* toggleTask that pushes the date whether or not it is present
toggleTaskMap_alwaysPush(t, date) ==
    [t EXCEPT !.completions = Append(@, date)]

\* toggleTask: remove the date if present, else push it
toggleTaskMap(t, date) ==
    LET idx == indexOf(t.completions, date)
    IN  [t EXCEPT !.completions = IF idx > 0 THEN splice1(@, idx) ELSE Append(@, date)]

\* executeDelete / handleDelete: push the date onto hiddenDates
executeDeleteMap(t, date) == [t EXCEPT !.hiddenDates = Append(@, date)]

\* new Set(arr), then Array.from: the first occurrences, in order
RECURSIVE arrayFromSet(_)
arrayFromSet(arr) ==
    IF arr = <<>> THEN <<>>
    ELSE LET init == arrayFromSet(SubSeq(arr, 1, Len(arr) - 1))
             last == arr[Len(arr)]
         IN  IF includes(init, last) THEN init ELSE Append(init, last)

\* App.tsx executeMoveTask
executeMoveTaskMapApp(t, date, direction) ==
    LET offset        == IF direction = "forward" THEN 1 ELSE -1
        targetDateStr == plusDays(date, offset)
        added         == arrayFromSet(Append(t.hiddenDates, date))
        newHidden     == filterNot(added, targetDateStr)
        newDateCreated ==
            IF t.type = "one-time"
            THEN IF StrLT(targetDateStr, t.dateCreated) THEN targetDateStr
                 ELSE IF direction = "forward" /\ t.dateCreated = date THEN targetDateStr
                 ELSE t.dateCreated
            ELSE t.dateCreated
    IN  [t EXCEPT !.hiddenDates = newHidden,
                  !.dateCreated = newDateCreated,
                  !.completions = filterNot(@, date)]

\* part_001 executeMoveTask and part_000 handleMoveTask (the same body)
executeMoveTaskMap(t, date, direction) ==
    LET offset        == IF direction = "forward" THEN 1 ELSE -1
        targetDateStr == plusDays(date, offset)
    IN  [t EXCEPT !.hiddenDates = Append(@, date),
                  !.dateCreated = IF t.type = "one-time" THEN targetDateStr ELSE @,
                  !.completions = filterNot(@, date)]

moveMap(rev, t, date, direction) ==
    IF rev = "App" THEN executeMoveTaskMapApp(t, date, direction)
    ELSE executeMoveTaskMap(t, date, direction)

-----------------------------------------------------------------------------
(* The state machine *)

\* localStorage.getItem('pro_tasks'): null when the key is absent; otherwise the
\* stored text, by what JSON.parse makes of it
noItem == [kind |-> "null", value |-> <<>>]

\* localStorage.setItem('pro_tasks', JSON.stringify(ts))
setItem(ts) == [kind |-> "array", value |-> ts]

\* once mounted, the save effect rewrites the item on every change of tasks:
\* the item is JSON.stringify(tasks) and is not carried as separate state
savedItem == [kind |-> "saved", value |-> <<>>]

\* the local time the model starts at, one minute before the alarm time
StartHM == <<8, 59>>

\* the ticker before the 'start' message
workerIdle == [now |-> 0, expected |-> 0, timeoutAt |-> -1, ticks |-> 0]

\* no alarm raised yet, the ticker not started
\* a browser with Web Audio, without the Screen Wake Lock API and without the
\* permission to notify
plainBrowser == [audio |-> TRUE, wakeLock |-> FALSE, notification |-> FALSE]

\* nothing playing, pending or held
hostIdle == [playing |-> {}, timers |-> {}, overtaken |-> {}, requests |-> {},
             held |-> {}, releasing |-> {}, alerted |-> {}, notifications |-> {}]

silent == stopAlarmRef = 0 /\ wakeLockRef = 0 /\ host = hostIdle

quiet ==
    /\ currentHM = StartHM
    /\ suspended = FALSE
    /\ ticked = FALSE
    /\ notifiedTasksRef = {}
    /\ activeAlert = <<>>
    /\ alarmLog = <<>>
    /\ worker = workerIdle
    /\ capabilities = plainBrowser
    /\ silent

\* the application mounted on a loaded collection
mounted == phase = "running" /\ quiet

Init ==
    /\ revision \in Revisions
    /\ clock = parseLocalDate(StartDate)
    /\ nowMs = 1
    /\ tasks = <<>>
    /\ selectedDate = getLocalISO(parseLocalDate(StartDate))
    /\ currentView = "day"
    /\ historyDrilldownDate = <<>>
    /\ deleteModalId = 0
    /\ moveModalId = 0
    /\ editingTask = <<>>
    /\ undoAction = <<>>
    /\ storedTasks = savedItem
    /\ mounted

\* the host clock passes midnight
Midnight ==
    /\ clock < parseLocalDate(StartDate) + MaxMidnights
    /\ clock' = clock + 1
    /\ UNCHANGED <<sysVars, revision, nowMs, tasks, selectedDate, currentView,
                   historyDrilldownDate, deleteModalId, moveModalId, editingTask, undoAction>>

\* the bottom navigation: Today (day, 0), Tomorrow (day, 1), Week
setViewDate(view, offset) ==
    /\ noModal
    /\ currentView' = view
    /\ historyDrilldownDate' = <<>>
    /\ selectedDate' = IF view = "day"
                       THEN getLocalISO(setDate(clock, getDate(clock) + offset))
                       ELSE todayStr
    /\ UNCHANGED <<sysVars, revision, clock, nowMs, tasks, deleteModalId, moveModalId, editingTask, undoAction>>

\* the bottom navigation: Stats
openHistory ==
    /\ noModal
    /\ currentView' = "history"
    /\ UNCHANGED <<sysVars, revision, clock, nowMs, tasks, selectedDate, historyDrilldownDate,
                   deleteModalId, moveModalId, editingTask, undoAction>>

\* a heatmap cell is clicked: the cell of the day i days before today
onDrillDown(i) ==
    /\ noModal
    /\ currentView = "history" /\ historyDrilldownDate = <<>>
    /\ historyDrilldownDate' = getLocalISO(setDate(clock, getDate(clock) - i))
    /\ UNCHANGED <<sysVars, revision, clock, nowMs, tasks, selectedDate, currentView,
                   deleteModalId, moveModalId, editingTask, undoAction>>

\* "Back to Stats"
closeDrillDown ==
    /\ noModal
    /\ historyDrilldownDate # <<>>
    /\ listShown
    /\ historyDrilldownDate' = <<>>
    /\ UNCHANGED <<sysVars, revision, clock, nowMs, tasks, selectedDate, currentView,
                   deleteModalId, moveModalId, editingTask, undoAction>>

\* Sidebar onSelectDate
onSelectDate(d) ==
    /\ noModal
    /\ selectedDate' = d
    /\ currentView' = "day"
    /\ UNCHANGED <<sysVars, revision, clock, nowMs, tasks, historyDrilldownDate,
                   deleteModalId, moveModalId, editingTask, undoAction>>

\* App.tsx addTask, called by the AddTask form with a non-empty text; passed
\* says whether the chosen time is earlier than the clock's HH:mm. The model
\* admits tasks while the collection is shorter than limit.
addTask(type, weeklyDay, time, passed, limit) ==
    /\ revision = "App"
    /\ noModal
    /\ currentView = "day" /\ historyDrilldownDate = <<>>
    /\ Len(tasks) < limit
    /\ nowMs <= limit
    /\ LET finalDate == IF selectedDate = todayStr /\ time # <<>> /\ passed
                        THEN getLocalISO(setDate(clock, getDate(clock) + 1))
                        ELSE selectedDate
           newTask == [id |-> nowMs, text |-> "task", type |-> type,
                       weeklyDay |-> IF type = "weekly" THEN weeklyDay ELSE -1,
                       time |-> time, dateCreated |-> finalDate,
                       completions |-> <<>>, hiddenDates |-> <<>>]
       IN  tasks' = <<newTask>> \o tasks
    /\ nowMs' = nowMs + 1
    /\ UNCHANGED <<sysVars, revision, clock, selectedDate, currentView, historyDrilldownDate,
                   deleteModalId, moveModalId, editingTask, undoAction>>

\* part_000 / part_001: AddTask onTrigger opens a draft; the model opens at
\* most limit drafts
onTrigger(limit) ==
    /\ revision # "App"
    /\ noModal
    /\ listShown
    /\ currentView = "day" /\ selectedDate = todayStr /\ historyDrilldownDate = <<>>
    /\ nowMs <= limit
    /\ editingTask' = <<[id |-> -nowMs, text |-> "", type |-> "one-time",
                         weeklyDay |-> getDay(clock), time |-> <<>>,
                         dateCreated |-> selectedDate,
                         completions |-> <<>>, hiddenDates |-> <<>>]>>
    /\ nowMs' = nowMs + 1
    /\ UNCHANGED <<sysVars, revision, clock, tasks, selectedDate, currentView,
                   historyDrilldownDate, deleteModalId, moveModalId, undoAction>>

\* part_000 / part_001: a task of the list is clicked and opens in the modal
onEdit(k) ==
    /\ revision # "App"
    /\ noModal
    /\ listShown
    /\ k \in 1..Len(visible)
    /\ editingTask' = <<visible[k]>>
    /\ UNCHANGED <<sysVars, revision, clock, nowMs, tasks, selectedDate, currentView,
                   historyDrilldownDate, deleteModalId, moveModalId, undoAction>>

\* EditTaskModal onChange: the draft is replaced by a copy with one field changed
onChange(t) ==
    /\ editingTask # <<>>
    /\ editingTask' = <<t>>
    /\ editingTask' # editingTask
    /\ UNCHANGED <<sysVars, revision, clock, nowMs, tasks, selectedDate, currentView,
                   historyDrilldownDate, deleteModalId, moveModalId, undoAction>>

\* the fields of the modal
onChangeText(value) == editingTask # <<>> /\ onChange([editingTask[1] EXCEPT !.text = value])

onChangeTime(value) == editingTask # <<>> /\ onChange([editingTask[1] EXCEPT !.time = value])

onChangeType(value) == editingTask # <<>> /\ onChange([editingTask[1] EXCEPT !.type = value])

\* the day-of-week selector is rendered for weekly tasks only
onChangeWeeklyDay(value) ==
    /\ editingTask # <<>>
    /\ editingTask[1].type = "weekly"
    /\ onChange([editingTask[1] EXCEPT !.weeklyDay = value])

\* EditTaskModal onClose; the model admits tasks while the collection is
\* shorter than limit
onClose(limit) ==
    /\ editingTask # <<>>
    /\ LET e == editingTask[1]
       IN  IF e.text = "" /\ e.id < 0
           THEN tasks' = tasks
           ELSE IF e.id < 0
           THEN Len(tasks) < limit /\ tasks' = <<e>> \o tasks
           ELSE tasks' = mapId(tasks, e.id, [k \in 1..Len(tasks) |-> e])
    /\ editingTask' = <<>>
    /\ UNCHANGED <<sysVars, revision, clock, nowMs, selectedDate, currentView,
                   historyDrilldownDate, deleteModalId, moveModalId, undoAction>>

\* EditTaskModal onDelete: a draft is dropped, a stored task goes to the delete modal
onDelete ==
    /\ editingTask # <<>>
    /\ deleteModalId' = IF editingTask[1].id < 0 THEN deleteModalId ELSE editingTask[1].id
    /\ editingTask' = <<>>
    /\ UNCHANGED <<sysVars, revision, clock, nowMs, tasks, selectedDate, currentView,
                   historyDrilldownDate, moveModalId, undoAction>>

\* part_000 setUndo(label, oldTasks): the toast keeps the collection as it was
setUndo(oldTasks) == <<oldTasks>>

\* part_000 toggleTask: the first task with the id is not completed on the view date
isCompleting(id) ==
    LET found == SelectSeq(tasks, LAMBDA t : t.id = id)
    IN  found = <<>> \/ ~includes(found[1].completions, effectiveViewDate)

\* the body of toggleTask(id): what it does to the collection and to the toast
toggleTaskBody(id) ==
    /\ \A k \in 1..Len(tasks) :
          tasks[k].id = id /\ ~includes(tasks[k].completions, targetDate)
              => Len(tasks[k].completions) < MaxMarks
    /\ tasks' = mapId(tasks, id, [k \in 1..Len(tasks) |-> toggleTaskMap(tasks[k], targetDate)])
    /\ undoAction' = IF revision = "part_000" /\ isCompleting(id) THEN setUndo(tasks)
                     ELSE undoAction

\* the checkbox of a listed task
toggleTask(id) ==
    /\ noModal
    /\ listShown
    /\ toggleTaskBody(id)
    /\ UNCHANGED <<sysVars, revision, clock, nowMs, selectedDate, currentView,
                   historyDrilldownDate, deleteModalId, moveModalId, editingTask>>

roomToHide(id) ==
    \A k \in 1..Len(tasks) : tasks[k].id = id => Len(tasks[k].hiddenDates) < MaxMarks

\* the trash button of a listed task: App.tsx / part_001 confirmDelete, and the
\* first call of part_000 handleDelete
confirmDelete(id) ==
    /\ noModal
    /\ listShown
    /\ deleteModalId' = id
    /\ UNCHANGED <<sysVars, revision, clock, nowMs, tasks, selectedDate, currentView,
                   historyDrilldownDate, moveModalId, editingTask, undoAction>>

\* the modal's Remove button: executeDelete, or part_000 handleDelete(deleteModalId)
executeDelete ==
    /\ deleteModalId # 0
    /\ roomToHide(deleteModalId)
    /\ tasks' = mapId(tasks, deleteModalId,
                      [k \in 1..Len(tasks) |-> executeDeleteMap(tasks[k], targetDate)])
    /\ deleteModalId' = 0
    /\ undoAction' = IF revision = "part_000" THEN setUndo(tasks) ELSE undoAction
    /\ UNCHANGED <<sysVars, revision, clock, nowMs, selectedDate, currentView,
                   historyDrilldownDate, moveModalId, editingTask>>

\* the modal's Cancel button or backdrop
cancelDelete ==
    /\ deleteModalId # 0
    /\ deleteModalId' = 0
    /\ UNCHANGED <<sysVars, revision, clock, nowMs, tasks, selectedDate, currentView,
                   historyDrilldownDate, moveModalId, editingTask, undoAction>>

\* the arrow button of a listed task in App.tsx / part_001
requestMoveTask(id) ==
    /\ revision # "part_000"
    /\ noModal
    /\ listShown
    /\ moveModalId' = id
    /\ UNCHANGED <<sysVars, revision, clock, nowMs, tasks, selectedDate, currentView,
                   historyDrilldownDate, deleteModalId, editingTask, undoAction>>

\* the modal's Move / Push / Pull button
executeMoveTask ==
    /\ moveModalId # 0
    /\ roomToHide(moveModalId)
    /\ tasks' = mapId(tasks, moveModalId,
                      [k \in 1..Len(tasks) |->
                          moveMap(revision, tasks[k], targetDate, moveDirection)])
    /\ moveModalId' = 0
    /\ UNCHANGED <<sysVars, revision, clock, nowMs, selectedDate, currentView,
                   historyDrilldownDate, deleteModalId, editingTask, undoAction>>

cancelMove ==
    /\ moveModalId # 0
    /\ moveModalId' = 0
    /\ UNCHANGED <<sysVars, revision, clock, nowMs, tasks, selectedDate, currentView,
                   historyDrilldownDate, deleteModalId, editingTask, undoAction>>

\* the arrow button of a listed task in part_000: the move is immediate
handleMoveTask(id) ==
    /\ revision = "part_000"
    /\ noModal
    /\ listShown
    /\ roomToHide(id)
    /\ tasks' = mapId(tasks, id,
                      [k \in 1..Len(tasks) |->
                          moveMap(revision, tasks[k], targetDate, moveDirection)])
    /\ undoAction' = setUndo(tasks)
    /\ UNCHANGED <<sysVars, revision, clock, nowMs, selectedDate, currentView,
                   historyDrilldownDate, deleteModalId, moveModalId, editingTask>>

\* part_000: the Undo toast is clicked
undoHandler ==
    /\ noModal
    /\ undoAction # <<>>
    /\ tasks' = undoAction[1]
    /\ undoAction' = <<>>
    /\ UNCHANGED <<sysVars, revision, clock, nowMs, selectedDate, currentView,
                   historyDrilldownDate, deleteModalId, moveModalId, editingTask>>

\* part_000: the toast's 4 s timer runs out
undoTimeout ==
    /\ undoAction # <<>>
    /\ undoAction' = <<>>
    /\ UNCHANGED <<sysVars, revision, clock, nowMs, tasks, selectedDate, currentView,
                   historyDrilldownDate, deleteModalId, moveModalId, editingTask>>

Next ==
    \/ Midnight
    \/ \E offset \in {0, 1} : setViewDate("day", offset)
    \/ setViewDate("week", 0)
    \/ openHistory
    \/ \E i \in DrillDownCells : onDrillDown(i)
    \/ closeDrillDown
    \/ \E d \in SidebarDates : onSelectDate(d)
    \/ \E type \in TASK_TYPES, weeklyDay \in WeeklyDayChoices, time \in TimeChoices,
          passed \in BOOLEAN : addTask(type, weeklyDay, time, passed, MaxTasks)
    \/ onTrigger(MaxTasks)
    \/ \E k \in 1..MaxTasks : onEdit(k)
    \/ \E value \in TextChoices : onChangeText(value)
    \/ \E value \in TimeChoices : onChangeTime(value)
    \/ \E value \in TASK_TYPES : onChangeType(value)
    \/ \E value \in WeeklyDayChoices : onChangeWeeklyDay(value)
    \/ onClose(MaxTasks)
    \/ onDelete
    \/ \E k \in 1..Len(visible) : toggleTask(visible[k].id)
    \/ \E k \in 1..Len(visible) : confirmDelete(visible[k].id)
    \/ executeDelete
    \/ cancelDelete
    \/ \E k \in 1..Len(visible) : requestMoveTask(visible[k].id)
    \/ executeMoveTask
    \/ cancelMove
    \/ \E k \in 1..Len(visible) : handleMoveTask(visible[k].id)
    \/ undoHandler
    \/ undoTimeout

Spec == Init /\ [][Next]_vars

-----------------------------------------------------------------------------
(* The occurrence rule and the toggle on stored tasks of every shape *)

\* the longest completions / hiddenDates list a stored task starts with
MaxDueMarks == 1

\* the sequences over S without repetition, of length at most n
RECURSIVE NoDupSeqs(_, _)
NoDupSeqs(S, n) ==
    IF n = 0 THEN {<<>>}
    ELSE LET shorter == NoDupSeqs(S, n - 1)
             longer  == {Append(q, x) : q \in shorter, x \in S}
         IN  shorter \cup {q \in longer : \A a, b \in 1..Len(q) : a # b => q[a] # q[b]}

\* the dates stored tasks carry: the day before the start date to the day after
DueDates == {getLocalISO(parseLocalDate(StartDate) + k) : k \in -1..1}

\* the dates their completions and hiddenDates are drawn from
MarkDates == {getLocalISO(parseLocalDate(StartDate) + k) : k \in -1..0}

DueWeekdays == {2, 3}

\* loadTasks(): a stored collection of one task
DueTasks ==
    {[id |-> 1, text |-> "task", type |-> type, weeklyDay |-> wd, time |-> <<>>,
      dateCreated |-> dc, completions |-> co, hiddenDates |-> hd] :
        type \in TASK_TYPES, wd \in DueWeekdays \cup {-1}, dc \in DueDates,
        co \in NoDupSeqs(MarkDates, MaxDueMarks), hd \in NoDupSeqs(MarkDates, MaxDueMarks)}

InitDue ==
    /\ revision \in Revisions
    /\ clock = parseLocalDate(StartDate)
    /\ nowMs = 2
    /\ \E t \in DueTasks :
          /\ (t.type = "weekly") = (t.weeklyDay # -1)
          /\ tasks = <<t>>
    /\ selectedDate = getLocalISO(parseLocalDate(StartDate))
    /\ currentView = "day"
    /\ historyDrilldownDate = <<>>
    /\ deleteModalId = 0
    /\ moveModalId = 0
    /\ editingTask = <<>>
    /\ undoAction = <<>>
    /\ storedTasks = savedItem
    /\ mounted

NextDue ==
    \/ Midnight
    \/ \E offset \in {0, 1} : setViewDate("day", offset)
    \/ setViewDate("week", 0)
    \/ \E d \in SidebarDates : onSelectDate(d)
    \/ \E k \in 1..Len(visible) : toggleTask(visible[k].id)

SpecDue == InitDue /\ [][NextDue]_vars

\* the dates the rule is probed at, and the task probed
ProbeDates == {getLocalISO(parseLocalDate(StartDate) + k) : k \in -3..10}

isDue(t, d) == shouldShowTask(t, d, todayStr)

Before(a, b) == parseLocalDate(a) < parseLocalDate(b)

StoredTasks == {tasks[k] : k \in 1..Len(tasks)}

\* the same task with date d taken off its hiddenDates
unhidden(t, d) == [t EXCEPT !.hiddenDates = filterNot(@, d)]

\* C1: for a one-time task and a date d that is not hidden, the task is due on
\* d exactly when d is its dateCreated, or d is today, its dateCreated is an
\* earlier calendar day than today and it carries no completion mark for its
\* dateCreated; on any other date the rollover does not show it
C1_OneTimeDue ==
    \A t \in StoredTasks : \A d \in ProbeDates :
        t.type = "one-time" /\ ~includes(t.hiddenDates, d) =>
            (isDue(t, d) <=>
                \/ d = t.dateCreated
                \/ /\ parseLocalDate(d) = clock
                   /\ parseLocalDate(t.dateCreated) < clock
                   /\ t.dateCreated \notin {t.completions[k] : k \in 1..Len(t.completions)})

\* an uncompleted one-time task created two days ago is listed today and is
\* not listed on the day in between
C1_Witness ==
    \E t \in StoredTasks : \E d \in ProbeDates :
        /\ t.type = "one-time" /\ t.completions = <<>> /\ t.hiddenDates = <<>>
        /\ parseLocalDate(t.dateCreated) = clock - 2
        /\ parseLocalDate(d) = clock - 1
        /\ isDue(t, todayStr)
        /\ ~isDue(t, d)

\* C2: a task of any type is not due on a date in its hiddenDates, and hiding
\* a date changes nothing on any other date: on d' # d the task is due exactly
\* when it would be with d not hidden
C2_HiddenPerDate ==
    \A t \in StoredTasks : \A d \in ProbeDates :
        includes(t.hiddenDates, d) =>
            /\ ~isDue(t, d)
            /\ \A e \in ProbeDates : e # d => (isDue(t, e) <=> isDue(unhidden(t, d), e))

\* a task hidden on a date its rule selects, and due on the day after
C2_Witness ==
    \E t \in StoredTasks : \E d \in ProbeDates :
        /\ includes(t.hiddenDates, d)
        /\ isDue(unhidden(t, d), d)
        /\ ~isDue(t, d)
        /\ isDue(t, getLocalISO(parseLocalDate(d) + 1))

\* C3: a recurring task is due on d exactly when d is on or after its
\* dateCreated and d is not hidden; so once due on d1 it is due on every later
\* d2 that is not hidden
C3_RecurringDue ==
    \A t \in StoredTasks : t.type = "recurring" =>
        LET due == {d \in ProbeDates : isDue(t, d)}
        IN  /\ \A d \in ProbeDates :
                  d \in due <=> ~Before(d, t.dateCreated) /\ ~includes(t.hiddenDates, d)
            /\ \A d1 \in due : \A d2 \in ProbeDates :
                  /\ ~Before(d2, d1)
                  /\ ~Before(d2, t.dateCreated)
                  /\ ~includes(t.hiddenDates, d2)
                  => d2 \in due

\* a recurring task not due the day before its dateCreated, due on it, hidden
\* on a later date and due again at the end of the probed range
C3_Witness ==
    \E t \in StoredTasks : \E h \in ProbeDates :
        /\ t.type = "recurring"
        /\ ~isDue(t, getLocalISO(parseLocalDate(t.dateCreated) - 1))
        /\ isDue(t, t.dateCreated)
        /\ Before(t.dateCreated, h) /\ includes(t.hiddenDates, h) /\ ~isDue(t, h)
        /\ isDue(t, getLocalISO(parseLocalDate(StartDate) + 10))

\* the 7 consecutive dates from day number s
Window(s) == {getLocalISO(s + i) : i \in 0..6}

\* C4: a weekly task is due on d exactly when the weekday of d (Sunday = 0) is
\* its weeklyDay, d is on or after its dateCreated and d is not hidden; so in
\* any 7 consecutive dates on or after dateCreated, none of them hidden, it is
\* due on exactly one
C4_WeeklyDue ==
    \A t \in StoredTasks : t.type = "weekly" =>
        /\ \A d \in ProbeDates :
              isDue(t, d) <=> /\ (parseLocalDate(d) + 4) % 7 = t.weeklyDay
                              /\ ~Before(d, t.dateCreated)
                              /\ ~includes(t.hiddenDates, d)
        /\ \A s \in parseLocalDate(t.dateCreated)..(parseLocalDate(StartDate) + 4) :
              (\A d \in Window(s) : ~includes(t.hiddenDates, d))
              => Cardinality({d \in Window(s) : isDue(t, d)}) = 1

\* a weekly task created on its own weekday: due then and 7 days later, not
\* the day after, and not 7 days earlier although the weekday matches
C4_Witness ==
    \E t \in StoredTasks :
        /\ t.type = "weekly" /\ t.hiddenDates = <<>>
        /\ getDay(parseLocalDate(t.dateCreated)) = t.weeklyDay
        /\ isDue(t, t.dateCreated)
        /\ isDue(t, getLocalISO(parseLocalDate(t.dateCreated) + 7))
        /\ ~isDue(t, getLocalISO(parseLocalDate(t.dateCreated) + 1))
        /\ ~isDue(t, getLocalISO(parseLocalDate(t.dateCreated) - 7))

asSet(arr) == {arr[k] : k \in 1..Len(arr)}

\* the dates a completion is toggled for
ToggleDates == {getLocalISO(parseLocalDate(StartDate) + k) : k \in -1..3}

\* C6: toggling a task's completion twice for the same date gives back the
\* task: the same set of completion dates and every other field as before
\* (the first toggle does change whether the date is marked)
C6_ToggleTwice ==
    \A t \in StoredTasks : \A d \in ToggleDates :
        LET once  == toggleTaskMap(t, d)
            twice == toggleTaskMap(once, d)
        IN  /\ asSet(twice.completions) = asSet(t.completions)
            /\ [twice EXCEPT !.completions = <<>>] = [t EXCEPT !.completions = <<>>]
            /\ includes(once.completions, d) # includes(t.completions, d)

\* a task toggled on two dates; toggling the first of them twice gives the
\* same set of dates in a different list order
C6_Witness ==
    \E t \in StoredTasks :
        /\ Len(t.completions) = 2
        /\ LET d == t.completions[1]
           IN  /\ toggleTaskMap(toggleTaskMap(t, d), d).completions # t.completions
               /\ asSet(toggleTaskMap(toggleTaskMap(t, d), d).completions)
                      = asSet(t.completions)

-----------------------------------------------------------------------------
(* Completion, moves and the week list on the running application *)

\* the tasks a row button can be pressed on
ListedTasks ==
    IF noModal /\ listShown THEN {visible[k] : k \in 1..Len(visible)} ELSE {}

\* the calendar day next to dateStr, by day number
neighbour(dateStr, direction) ==
    getLocalISO(parseLocalDate(dateStr) + (IF direction = "forward" THEN 1 ELSE -1))

\* the dates after today
LaterDates == {d \in ProbeDates : Before(todayStr, d)}

\* C5: an unhidden one-time task without completion marks is due on every
\* later today; and once a rolled-over task listed in the today view is
\* toggled complete there, it is not due on any later value of today
C5_RolloverUntilCompleted ==
    \A t \in ListedTasks :
        /\ t.type = "one-time" /\ t.completions = <<>> /\ t.hiddenDates = <<>>
           => \A d \in ProbeDates : Before(t.dateCreated, d) => shouldShowTask(t, d, d)
        /\ /\ t.type = "one-time"
           /\ targetDate = todayStr
           /\ Before(t.dateCreated, todayStr)
           /\ isDue(t, todayStr)
           /\ ~includes(t.completions, todayStr)
           => LET done == toggleTaskMap(t, targetDate)
              IN  \A d \in LaterDates : ~shouldShowTask(done, d, d)

\* C7: a task listed today is moved forward from D = today and, listed on
\* D + 1, moved backward from there; it then has its original dateCreated and
\* D is not in its hiddenDates, so it is due on D again
C7_MoveRoundTrip ==
    \A t \in ListedTasks :
        LET D        == targetDate
            forward  == moveMap(revision, t, D, "forward")
            D1       == neighbour(D, "forward")
            backward == moveMap(revision, forward, D1, "backward")
        IN  /\ D = todayStr
            /\ isDue(t, D)
            /\ t.type = "one-time" => t.dateCreated = D
            /\ ~includes(t.hiddenDates, D1)
            /\ isDue(forward, D1)
            => /\ backward.dateCreated = t.dateCreated
               /\ ~includes(backward.hiddenDates, D)
               /\ isDue(backward, D)

\* C8: moving the occurrence of a listed task from fromDate puts fromDate in
\* its hiddenDates; a one-time task, rolled over or not, gets the calendar
\* neighbour of fromDate as dateCreated and is then due on that date and not
\* on fromDate; a recurring or weekly task keeps its dateCreated
C8_MoveOccurrence ==
    \A t \in ListedTasks :
        LET fromDate == targetDate
            toDate   == neighbour(fromDate, moveDirection)
            moved    == moveMap(revision, t, fromDate, moveDirection)
        IN  isDue(t, fromDate) =>
               /\ includes(moved.hiddenDates, fromDate)
               /\ t.type = "one-time" =>
                     /\ moved.dateCreated = toDate
                     /\ isDue(moved, toDate)
                     /\ ~isDue(moved, fromDate)
               /\ t.type # "one-time" => moved.dateCreated = t.dateCreated

\* C9: in the week view the listed ids are the ids of the tasks due on one of
\* the 7 days from today, and no id is listed twice
C9_WeekIsUnionOfDays ==
    currentView = "week" =>
        /\ {sortedVisibleTasks[k].id : k \in 1..Len(sortedVisibleTasks)}
               = UNION {{t.id : t \in {u \in StoredTasks : isDue(u, getLocalISO(clock + i))}} :
                           i \in 0..6}
        /\ \A a, b \in 1..Len(sortedVisibleTasks) :
               a # b => sortedVisibleTasks[a].id # sortedVisibleTasks[b].id

-----------------------------------------------------------------------------
(* The order of the list on stored collections of several tasks *)

\* the number of tasks in the stored collection
MaxViewTasks == 2

\* the dates, of the stored tasks: the start date and the day after
ViewDates == {getLocalISO(parseLocalDate(StartDate) + k) : k \in 0..1}

\* the times of the stored tasks: none, 09:00, and the last minute of the day
ViewTimes == TimeChoices \cup {<<23, 59>>}

ViewTasks ==
    {[id |-> id, text |-> "task", type |-> type,
      weeklyDay |-> IF type = "weekly" THEN wd ELSE -1, time |-> time,
      dateCreated |-> dc, completions |-> <<>>, hiddenDates |-> <<>>] :
        id \in 1..MaxViewTasks, type \in TASK_TYPES, wd \in WeeklyDayChoices,
        time \in ViewTimes, dc \in ViewDates}

\* loadTasks(): a stored collection of tasks with distinct ids, in any order
InitView ==
    /\ revision \in Revisions
    /\ clock = parseLocalDate(StartDate)
    /\ nowMs = MaxViewTasks + 1
    /\ tasks \in {ts \in [1..MaxViewTasks -> ViewTasks] :
                     \A a, b \in 1..MaxViewTasks : a # b => ts[a].id # ts[b].id}
    /\ selectedDate = getLocalISO(parseLocalDate(StartDate))
    /\ currentView = "day"
    /\ historyDrilldownDate = <<>>
    /\ deleteModalId = 0
    /\ moveModalId = 0
    /\ editingTask = <<>>
    /\ undoAction = <<>>
    /\ storedTasks = savedItem
    /\ mounted

NextView ==
    \/ Midnight
    \/ \E offset \in {0, 1} : setViewDate("day", offset)
    \/ setViewDate("week", 0)
    \/ openHistory
    \/ \E i \in DrillDownCells : onDrillDown(i)
    \/ closeDrillDown
    \/ \E d \in SidebarDates : onSelectDate(d)

SpecView == InitView /\ [][NextView]_vars

\* the stored collection in another order
permuted(ts, p) == [k \in 1..Len(ts) |-> ts[p[k]]]

\* the date the comparators take as viewStart
sortViewStart == IF revision = "App" THEN selectedDate ELSE effectiveViewDate

\* a sorts before b by sort date, then time (untimed as 23:59), then id
sortsBefore(a, b) ==
    LET dateA == getSortDate(revision, a, sortViewStart)
        dateB == getSortDate(revision, b, sortViewStart)
    IN  \/ Before(dateA, dateB)
        \/ dateA = dateB /\ StrLT(timeOrLast(a), timeOrLast(b))
        \/ dateA = dateB /\ timeOrLast(a) = timeOrLast(b) /\ a.id < b.id

\* C10: the list is in strict ascending order of sort date, then time, then
\* id, and is the same list for every order in which the collection stores
\* the same tasks
C10_StrictTotalOrder ==
    listShown =>
        /\ \A a, b \in 1..Len(sortedVisibleTasks) :
              a < b => sortsBefore(sortedVisibleTasks[a], sortedVisibleTasks[b])
        /\ \A p \in Permutations(1..Len(tasks)) :
              sortedVisibleOf(revision, permuted(tasks, p), currentView, selectedDate,
                              historyDrilldownDate, todayStr) = sortedVisibleTasks

-----------------------------------------------------------------------------
(* The alarm engine: the check run on every tick, and the alert *)

\* the minutes the host clock moves past StartHM
MaxMinutes == 2

\* `${t.id}-${todayISO}-${currentHM}`: the date and the time have fixed widths
\* (10 and 5 characters), so the string determines its three parts and two
\* keys are equal exactly when the triples are
notificationKey(t) == <<t.id, todayStr, currentHM>>

\* triggerAlarm(task) of part_000 / part_001, and steps 1 to 5 of the interval
\* callback of App.tsx, on the state st of the engine. The alarm is the h-th
\* one. The loop playing is stopped; startAlarmSound creates the AudioContext
\* (the constructor throws where there is none), the new loop starts, its stop
\* function becomes current and the 60 s timer is set. part_000 / part_001
\* then await navigator.wakeLock.request where the API exists, and the rest
\* of the function runs when the request is settled; otherwise the alert is
\* set and the system notification shown at once. An exception leaves the
\* callback of App.tsx; in part_000 / part_001 it rejects the promise of the
\* async function and checkAlarms goes on.
triggerAlarm(t, st) ==
    LET h == Len(st.log) + 1
        stopped == [st.host EXCEPT !.playing = @ \ {st.ref}]
        started == [stopped EXCEPT !.playing = @ \cup {h}, !.timers = @ \cup {h}]
    IN  IF ~capabilities.audio
        THEN [st EXCEPT !.host = stopped, !.thrown = (revision = "App")]
        ELSE IF revision # "App" /\ capabilities.wakeLock
        THEN [st EXCEPT !.ref = h,
                        !.log = Append(@, notificationKey(t)),
                        !.host = [started EXCEPT !.requests = @ \cup {<<h, t>>}]]
        ELSE [st EXCEPT !.ref = h,
                        !.log = Append(@, notificationKey(t)),
                        !.alert = <<t>>,
                        !.host = [started EXCEPT
                                     !.alerted = @ \cup {h},
                                     !.notifications = IF capabilities.notification
                                                       THEN @ \cup {h} ELSE @]]

\* the forEach body without the bookkeeping of the key
checkAlarm_forgetKey(t, st) ==
    IF /\ ~st.thrown
       /\ shouldShowTask(t, todayStr, todayStr)
       /\ ~includes(t.completions, todayStr)
       /\ t.time = currentHM
       /\ notificationKey(t) \notin st.notified
    THEN triggerAlarm(t, st)
    ELSE st

\* the forEach body of checkAlarms, on the state st of the engine: the alarm of
\* t is raised and its key is recorded, unless an exception has left the callback
checkAlarm(t, st) ==
    IF /\ ~st.thrown
       /\ shouldShowTask(t, todayStr, todayStr)
       /\ ~includes(t.completions, todayStr)
       /\ t.time = currentHM
       /\ notificationKey(t) \notin st.notified
    THEN LET fired == triggerAlarm(t, st)
         IN  IF fired.thrown
             THEN fired
             ELSE [fired EXCEPT !.notified = @ \cup {notificationKey(t)}]
    ELSE st

\* tasks.forEach(...) from position k on
RECURSIVE checkAlarms(_, _, _)
checkAlarms(ts, k, st) ==
    IF k > Len(ts) THEN st ELSE checkAlarms(ts, k + 1, checkAlarm(ts[k], st))

\* a 'tick' message of the worker (part_000, part_001) or a run of the
\* interval callback (App.tsx)
tick ==
    /\ phase = "running"
    /\ ~suspended
    /\ LET st == checkAlarms(tasks, 1, [notified |-> notifiedTasksRef,
                                         alert    |-> activeAlert,
                                         log      |-> alarmLog,
                                         ref      |-> stopAlarmRef,
                                         host     |-> host,
                                         thrown   |-> FALSE])
       IN  /\ notifiedTasksRef' = st.notified
           /\ activeAlert' = st.alert
           /\ alarmLog' = st.log
           /\ stopAlarmRef' = st.ref
           /\ host' = st.host
    /\ ticked' = TRUE
    /\ UNCHANGED <<revision, clock, nowMs, tasks, selectedDate, currentView,
                   historyDrilldownDate, deleteModalId, moveModalId, editingTask,
                   undoAction, storedTasks, phase, currentHM, suspended, worker,
                   capabilities, wakeLockRef>>

minuteOfDay(hm) == hm[1] * 60 + hm[2]

nextHM(hm) == IF hm[2] = 59 THEN <<(hm[1] + 1) % 24, 0>> ELSE <<hm[1], hm[2] + 1>>

\* the host clock passes to the next minute. A running ticker ticks many
\* times a minute (every second, or every ten seconds in App.tsx); only a
\* suspended process lets a minute pass without a tick.
Minute ==
    /\ minuteOfDay(currentHM) - minuteOfDay(StartHM) < MaxMinutes
    /\ ticked \/ suspended
    /\ currentHM' = nextHM(currentHM)
    /\ ticked' = FALSE
    /\ UNCHANGED <<revision, clock, nowMs, tasks, selectedDate, currentView,
                   historyDrilldownDate, deleteModalId, moveModalId, editingTask,
                   undoAction, storedTasks, phase, suspended, notifiedTasksRef,
                   activeAlert, alarmLog, worker, fxVars>>

\* the host suspends the process (a sleeping device, a frozen tab) ...
suspend ==
    /\ ~suspended
    /\ suspended' = TRUE
    /\ UNCHANGED <<revision, clock, nowMs, tasks, selectedDate, currentView,
                   historyDrilldownDate, deleteModalId, moveModalId, editingTask,
                   undoAction, storedTasks, phase, currentHM, ticked, notifiedTasksRef,
                   activeAlert, alarmLog, worker, fxVars>>

\* ... and lets it run again
resume ==
    /\ suspended
    /\ suspended' = FALSE
    /\ UNCHANGED <<revision, clock, nowMs, tasks, selectedDate, currentView,
                   historyDrilldownDate, deleteModalId, moveModalId, editingTask,
                   undoAction, storedTasks, phase, currentHM, ticked, notifiedTasksRef,
                   activeAlert, alarmLog, worker, fxVars>>

\* dismissAlarm(): the current loop is stopped and the reference cleared;
\* part_001 releases the sentinel it holds a reference to, and clears that
\* reference when the release is settled; the alert is cleared
dismissAlarmBody ==
    /\ stopAlarmRef' = 0
    /\ host' = IF revision = "part_001" /\ wakeLockRef # 0
               THEN [host EXCEPT !.playing = @ \ {stopAlarmRef},
                                 !.held = @ \ {wakeLockRef},
                                 !.releasing = @ \cup {wakeLockRef}]
               ELSE [host EXCEPT !.playing = @ \ {stopAlarmRef}]
    /\ activeAlert' = <<>>
    /\ UNCHANGED <<capabilities, wakeLockRef>>

\* the Dismiss button and the backdrop of the alert
dismissAlarm ==
    /\ ~suspended
    /\ activeAlert # <<>>
    /\ dismissAlarmBody
    /\ UNCHANGED <<revision, clock, nowMs, tasks, selectedDate, currentView,
                   historyDrilldownDate, deleteModalId, moveModalId, editingTask,
                   undoAction, storedTasks, phase, currentHM, suspended, ticked,
                   notifiedTasksRef, alarmLog, worker>>

\* the Done button of the alert: toggleTask(activeAlert.id), then dismissAlarm()
markActiveAlertDone ==
    /\ ~suspended
    /\ activeAlert # <<>>
    /\ toggleTaskBody(activeAlert[1].id)
    /\ dismissAlarmBody
    /\ UNCHANGED <<revision, clock, nowMs, selectedDate, currentView,
                   historyDrilldownDate, deleteModalId, moveModalId, editingTask,
                   storedTasks, phase, currentHM, suspended, ticked,
                   notifiedTasksRef, alarmLog, worker>>

\* loadTasks(): a stored collection of one task, with or without a time
AlarmTasks ==
    {[id |-> 1, text |-> "task", type |-> type,
      weeklyDay |-> IF type = "weekly" THEN wd ELSE -1, time |-> time,
      dateCreated |-> dc, completions |-> co, hiddenDates |-> <<>>] :
        type \in TASK_TYPES, wd \in DueWeekdays, time \in TimeChoices, dc \in DueDates,
        co \in NoDupSeqs(MarkDates, MaxDueMarks)}

InitAlarm ==
    /\ revision \in Revisions
    /\ clock = parseLocalDate(StartDate)
    /\ nowMs = 2
    /\ \E t \in AlarmTasks : tasks = <<t>>
    /\ selectedDate = getLocalISO(parseLocalDate(StartDate))
    /\ currentView = "day"
    /\ historyDrilldownDate = <<>>
    /\ deleteModalId = 0
    /\ moveModalId = 0
    /\ editingTask = <<>>
    /\ undoAction = <<>>
    /\ storedTasks = savedItem
    /\ mounted

NextAlarm ==
    \/ tick
    \/ Minute
    \/ suspend
    \/ resume
    \/ dismissAlarm
    \/ markActiveAlertDone
    \/ ~suspended /\ \E k \in 1..Len(visible) : toggleTask(visible[k].id)

SpecAlarm == InitAlarm /\ [][NextAlarm]_vars

(* C11: on every tick the alarm of a task is raised only if the task is due    *)
(* today, today is not in its completions, its time is the current HH:mm and  *)
(* its key (id, today, HH:mm) is not yet in the notified set; the key is in   *)
(* the set afterwards, so no key is ever raised twice, whether the alert was  *)
(* dismissed in between or not.                                               *)
C11_AlarmAtMostOnce ==
    [][LET raised == SubSeq(alarmLog', Len(alarmLog) + 1, Len(alarmLog'))
       IN  /\ \A k \in 1..Len(raised) :
                 /\ raised[k] \notin notifiedTasksRef
                 /\ raised[k] \in notifiedTasksRef'
                 /\ \E t \in StoredTasks :
                       /\ raised[k] = <<t.id, todayStr, currentHM>>
                       /\ isDue(t, todayStr)
                       /\ ~includes(t.completions, todayStr)
                       /\ t.time = currentHM
           /\ \A a, b \in 1..Len(alarmLog') : a # b => alarmLog'[a] # alarmLog'[b]]_vars

\* the alarm was raised and dismissed, the task is still open, and the ticker
\* goes on ticking within the same minute
C11_Witness ==
    /\ Len(alarmLog) = 1
    /\ alarmLog[1][3] = currentHM
    /\ activeAlert = <<>>
    /\ ticked /\ ~suspended
    /\ \A t \in StoredTasks : isDue(t, todayStr) /\ ~includes(t.completions, todayStr)

\* how many times key was raised
raisedCount(key) == Cardinality({k \in 1..Len(alarmLog) : alarmLog[k] = key})

(* C12: exactly once per due occurrence, in every schedule of ticks and       *)
(* suspensions: when the clock leaves a minute HH:mm, every task with that     *)
(* time which is due today and not completed today has had its alarm raised   *)
(* exactly once.                                                              *)
C12_AlarmExactlyOnce ==
    [][currentHM' # currentHM =>
          \A t \in StoredTasks :
              (t.time = currentHM /\ isDue(t, todayStr) /\ ~includes(t.completions, todayStr))
                  => raisedCount(notificationKey(t)) = 1]_vars

-----------------------------------------------------------------------------
(* The ticker of part_000 and part_001: the worker's step function *)

\* the period of the ticker and the drift threshold, in ms
Period == 1000

\* the time the model follows the worker for, in ms
MaxWorkerMs == 5000

max(a, b) == IF a > b THEN a ELSE b

\* the body of step() at time now with the given expected: the record after it
step(w) ==
    LET dt       == w.now - w.expected
        resynced == IF dt > Period THEN w.now ELSE w.expected
    IN  [now       |-> w.now,
         expected  |-> resynced + Period,
         timeoutAt |-> w.now + max(0, Period - dt),
         ticks     |-> w.ticks + 1]

\* workerRef.current.postMessage('start'): expected = Date.now() + 1000; step()
start ==
    /\ ~suspended
    /\ worker.timeoutAt = -1
    /\ worker' = step([worker EXCEPT !.expected = worker.now + Period])
    /\ UNCHANGED <<revision, clock, nowMs, tasks, selectedDate, currentView,
                   historyDrilldownDate, deleteModalId, moveModalId, editingTask,
                   undoAction, storedTasks, phase, currentHM, suspended, ticked,
                   notifiedTasksRef, activeAlert, alarmLog, fxVars>>

\* the timeout callback: it runs at its due time or, throttled, later
timeout ==
    /\ ~suspended
    /\ worker.timeoutAt # -1
    /\ worker.now >= worker.timeoutAt
    /\ worker' = step(worker)
    /\ UNCHANGED <<revision, clock, nowMs, tasks, selectedDate, currentView,
                   historyDrilldownDate, deleteModalId, moveModalId, editingTask,
                   undoAction, storedTasks, phase, currentHM, suspended, ticked,
                   notifiedTasksRef, activeAlert, alarmLog, fxVars>>

\* Date.now() advances, by half a period at a time
elapse ==
    /\ worker.now < MaxWorkerMs
    /\ worker' = [worker EXCEPT !.now = @ + Period \div 2]
    /\ UNCHANGED <<revision, clock, nowMs, tasks, selectedDate, currentView,
                   historyDrilldownDate, deleteModalId, moveModalId, editingTask,
                   undoAction, storedTasks, phase, currentHM, suspended, ticked,
                   notifiedTasksRef, activeAlert, alarmLog, fxVars>>

\* App.tsx has no worker
InitWorker ==
    /\ Init
    /\ revision # "App"

NextWorker ==
    \/ start
    \/ timeout
    \/ elapse
    \/ suspend
    \/ resume

SpecWorker == InitWorker /\ [][NextWorker]_vars

(* C13: drift resync. At a run of step with dt = now - expected above 1000 ms *)
(* expected is set to now and the next tick is scheduled one period later,    *)
(* not immediately; with dt <= 1000 ms the next delay is max(0, 1000 - dt),   *)
(* which puts the next tick on the grid expected + 1000.                      *)
C13_DriftResync ==
    [][(worker.timeoutAt # -1 /\ worker'.ticks = worker.ticks + 1) =>
          LET now == worker.now
              dt  == worker.now - worker.expected
          IN  IF dt > Period
              THEN /\ worker'.expected = now + Period
                   /\ worker'.timeoutAt = now + Period
              ELSE /\ worker'.expected = worker.expected + Period
                   /\ worker'.timeoutAt = now + max(0, Period - dt)
                   /\ worker'.timeoutAt = worker.expected + Period]_vars

-----------------------------------------------------------------------------
(* The History view: the streak *)

\* the number of stored tasks and the longest completions list they start with
MaxStreakTasks == 2

MaxStreakMarks == 2

\* tasks.forEach(t => t.completions.forEach(c => uniqueDates.add(c)))
uniqueDates(ts) == UNION {{ts[k].completions[i] : i \in 1..Len(ts[k].completions)} : k \in 1..Len(ts)}

\* the while (true) loop: the days counted from checkDate backwards
RECURSIVE countBack(_, _)
countBack(U, checkDate) ==
    IF getLocalISO(checkDate) \in U
    THEN 1 + countBack(U, setDate(checkDate, getDate(checkDate) - 1))
    ELSE 0

\* the streak counted from today only
calculateStreak_todayOnly(ts, now) ==
    LET U            == uniqueDates(ts)
        today        == getLocalISO(now)
        yesterdayStr == getLocalISO(setDate(now, getDate(now) - 1))
    IN  IF U = {} THEN 0
        ELSE IF today \notin U /\ yesterdayStr \notin U THEN 0
        ELSE countBack(U, now)

\* calculateStreak(), with new Date() = now
calculateStreak(ts, now) ==
    LET U            == uniqueDates(ts)
        today        == getLocalISO(now)
        yesterdayStr == getLocalISO(setDate(now, getDate(now) - 1))
    IN  IF U = {} THEN 0
        ELSE IF today \notin U /\ yesterdayStr \notin U THEN 0
        ELSE countBack(U, IF today \notin U THEN setDate(now, getDate(now) - 1) ELSE now)

\* the dates of the stored completions: two days ago to the start date
StreakDates == {getLocalISO(parseLocalDate(StartDate) + k) : k \in -2..0}

\* loadTasks(): a stored collection of daily tasks with their completions
InitStreak ==
    /\ revision \in Revisions
    /\ clock = parseLocalDate(StartDate)
    /\ nowMs = MaxStreakTasks + 1
    /\ tasks \in [1..MaxStreakTasks -> 
                    {[id |-> id, text |-> "task", type |-> "recurring", weeklyDay |-> -1,
                      time |-> <<>>, dateCreated |-> getLocalISO(parseLocalDate(StartDate) - 2),
                      completions |-> co, hiddenDates |-> <<>>] :
                         id \in 1..MaxStreakTasks, co \in NoDupSeqs(StreakDates, MaxStreakMarks)}]
    /\ \A k \in 1..MaxStreakTasks : tasks[k].id = k
    /\ selectedDate = getLocalISO(parseLocalDate(StartDate))
    /\ currentView = "day"
    /\ historyDrilldownDate = <<>>
    /\ deleteModalId = 0
    /\ moveModalId = 0
    /\ editingTask = <<>>
    /\ undoAction = <<>>
    /\ storedTasks = savedItem
    /\ mounted

\* the streak is read off the collection and the clock: the days pass and the
\* History view is opened
NextStreak ==
    \/ Midnight
    \/ setViewDate("day", 0)
    \/ openHistory

SpecStreak == InitStreak /\ [][NextStreak]_vars

\* the days of U, and the length of the run of consecutive days of U ending at day d
streakDays == {parseLocalDate(c) : c \in uniqueDates(tasks)}

runEndingAt(d) ==
    CHOOSE n \in 0..Cardinality(streakDays) :
        /\ \A k \in 0..(n - 1) : (d - k) \in streakDays
        /\ (d - n) \notin streakDays

(* C14: with U the set of all completion dates of all tasks, the streak is 0  *)
(* if neither today nor yesterday is in U, and otherwise the length of the    *)
(* maximal run of consecutive calendar days in U ending at today (if today    *)
(* is in U) or at yesterday.                                                  *)
C14_Streak ==
    calculateStreak(tasks, clock) =
        IF clock \notin streakDays /\ (clock - 1) \notin streakDays THEN 0
        ELSE runEndingAt(IF clock \in streakDays THEN clock ELSE clock - 1)

\* today is open, yesterday and the day before were completed by different tasks
C14_Witness ==
    /\ calculateStreak(tasks, clock) = 2
    /\ streakDays = {clock - 2, clock - 1}
    /\ \E a, b \in StoredTasks : a.completions # b.completions /\ a.completions # <<>> /\ b.completions # <<>>
    /\ currentView = "history"

-----------------------------------------------------------------------------
(* The collection under every sequence of operations *)

\* arr holds no value twice
noDuplicates(arr) == \A a, b \in 1..Len(arr) : a # b => arr[a] # arr[b]

(* C15: in every state reached from the empty collection by add, toggle,      *)
(* delete, move and edit in any view, the completions and the hiddenDates of  *)
(* every task hold each date at most once.                                    *)
C15_NoDuplicateDates ==
    \A t \in StoredTasks : noDuplicates(t.completions) /\ noDuplicates(t.hiddenDates)

\* the number of tasks admitted when adding, editing and undoing are followed
MaxEditTasks == 2

\* the form, the modal, the checkbox, the trash button and the Undo toast,
\* from the empty collection
NextEdit ==
    \/ \E type \in TASK_TYPES, weeklyDay \in WeeklyDayChoices :
          addTask(type, weeklyDay, <<>>, FALSE, MaxEditTasks)
    \/ onTrigger(MaxEditTasks)
    \/ \E k \in 1..MaxEditTasks : onEdit(k)
    \/ \E value \in TextChoices : onChangeText(value)
    \/ onClose(MaxEditTasks)
    \/ onDelete
    \/ \E k \in 1..Len(visible) : toggleTask(visible[k].id)
    \/ \E k \in 1..Len(visible) : confirmDelete(visible[k].id)
    \/ executeDelete
    \/ cancelDelete
    \/ undoHandler
    \/ undoTimeout

SpecEdit == Init /\ [][NextEdit]_vars

(* C16: a task is never hard-deleted. Every task of the collection is still   *)
(* in it after every step (delete, toggle, edit, undo), the collection never  *)
(* gets shorter, and a confirmed delete changes nothing but hiddenDates.      *)
C16_NeverHardDeleted ==
    [][/\ \A k \in 1..Len(tasks) : \E j \in 1..Len(tasks') : tasks'[j].id = tasks[k].id
       /\ Len(tasks') >= Len(tasks)
       /\ (deleteModalId # 0 /\ deleteModalId' = 0 /\ undoAction = <<>>) =>
             /\ Len(tasks') = Len(tasks)
             /\ \A k \in 1..Len(tasks) :
                   tasks'[k] = [tasks[k] EXCEPT !.hiddenDates = tasks'[k].hiddenDates]]_vars

(* C17: draft lifecycle. A draft has a negative placeholder id; saved with a  *)
(* non-empty text it is admitted under a fresh positive id, saved with an     *)
(* empty text it is discarded; so every task of the collection has a positive *)
(* id and a non-empty text.                                                   *)
C17_DraftLifecycle ==
    /\ \A t \in StoredTasks : t.id > 0 /\ t.text # ""
    /\ editingTask # <<>> =>
          \/ editingTask[1].id < 0
          \/ \E t \in StoredTasks : t.id = editingTask[1].id

(* C18: ids are unique and immutable. No two tasks of the collection share an *)
(* id, and saving a task that is already in the collection replaces it in     *)
(* place: the collection keeps its length and its ids.                        *)
C18_UniqueIds ==
    [][/\ \A a, b \in 1..Len(tasks') : a # b => tasks'[a].id # tasks'[b].id
       /\ (/\ editingTask # <<>>
           /\ editingTask' = <<>>
           /\ \E t \in StoredTasks : t.id = editingTask[1].id) =>
             /\ Len(tasks') = Len(tasks)
             /\ \A k \in 1..Len(tasks) : tasks'[k].id = tasks[k].id]_vars

-----------------------------------------------------------------------------
(* The header: the completion percentage *)

\* Math.round((a / b) * 100) for 0 <= a <= b, b > 0: Math.round rounds halves
\* up, floor(x + 0.5). For b below 40 the double arithmetic of the code gives
\* the value of the exact quotient.
roundPercent(a, b) == (200 * a + b) \div (2 * b)

\* the date whose completion marks are counted: viewStart in part_000 and
\* part_001, contextDate in App.tsx
percentageDate == IF revision = "App" THEN contextDate ELSE effectiveViewDate

\* completed.length, or completedCount
completedCount ==
    Cardinality({k \in 1..Len(sortedVisibleTasks) :
                    includes(sortedVisibleTasks[k].completions, percentageDate)})

\* percentage
percentage ==
    IF Len(sortedVisibleTasks) > 0
    THEN roundPercent(completedCount, Len(sortedVisibleTasks))
    ELSE 0

\* the anchor date of the view: today in week mode, else the date the list shows
anchorDate ==
    IF currentView = "week" THEN todayStr
    ELSE IF currentView = "history" /\ historyDrilldownDate # <<>> THEN historyDrilldownDate
    ELSE selectedDate

(* C19: the percentage is round(100 * completedCount / totalVisible), with    *)
(* completedCount the number of visible tasks completed on the anchor date    *)
(* (today in week mode); it is 0 when nothing is visible and lies in 0..100.  *)
C19_Percentage ==
    LET total == Len(visible)
        done  == Cardinality({k \in 1..total : includes(visible[k].completions, anchorDate)})
    IN  /\ percentage \in 0..100
        /\ total = 0 => percentage = 0
        /\ total > 0 =>
              /\ 2 * (100 * done - percentage * total) >= -total
              /\ 2 * (100 * done - percentage * total) < total

-----------------------------------------------------------------------------
(* Startup: the initialization effect reads the stored collection *)

\* what localStorage can hold under 'pro_tasks': nothing, the empty string,
\* text that is not JSON, JSON that is not an array, or a saved collection
StoredItems ==
    {noItem} \cup {[kind |-> k, value |-> <<>>] : k \in {"empty", "malformed", "object"}}
             \cup {setItem(<<t>>) : t \in AlarmTasks} \cup {setItem(<<>>)}

\* const storedTasks = localStorage.getItem('pro_tasks');
\* if (storedTasks) setTasks(JSON.parse(storedTasks));
\* JSON.parse throws a SyntaxError on text that is not JSON, and the exception
\* leaves the effect uncaught; a parsed value that is not an array is set as
\* the collection, and the next render throws on tasks.filter. Either way React
\* unmounts the component tree. After a load the save effect owns the item.
initEffect ==
    /\ phase = "mounting"
    /\ IF storedTasks.kind \in {"null", "empty"}
       THEN tasks' = tasks /\ phase' = "running" /\ storedTasks' = savedItem
       ELSE IF storedTasks.kind = "array"
       THEN tasks' = storedTasks.value /\ phase' = "running" /\ storedTasks' = savedItem
       ELSE tasks' = tasks /\ phase' = "crashed" /\ storedTasks' = storedTasks
    /\ UNCHANGED <<revision, clock, nowMs, selectedDate, currentView,
                   historyDrilldownDate, deleteModalId, moveModalId, editingTask,
                   undoAction, currentHM, suspended, ticked,
                   notifiedTasksRef, activeAlert, alarmLog, worker, fxVars>>

\* the first render: useState<Task[]>([]), the effects not yet run
InitLoad ==
    /\ revision \in Revisions
    /\ clock = parseLocalDate(StartDate)
    /\ nowMs = 2
    /\ tasks = <<>>
    /\ selectedDate = getLocalISO(parseLocalDate(StartDate))
    /\ currentView = "day"
    /\ historyDrilldownDate = <<>>
    /\ deleteModalId = 0
    /\ moveModalId = 0
    /\ editingTask = <<>>
    /\ undoAction = <<>>
    /\ storedTasks \in StoredItems
    /\ phase = "mounting"
    /\ quiet

\* a crashed application renders nothing: no handler can run
NextLoad ==
    \/ initEffect
    \/ phase = "running" /\ Midnight
    \/ phase = "running" /\ \E offset \in {0, 1} : setViewDate("day", offset)
    \/ phase = "running" /\ setViewDate("week", 0)
    \/ phase = "running" /\ openHistory
    \/ phase = "running" /\ \E k \in 1..Len(visible) : toggleTask(visible[k].id)

SpecLoad == InitLoad /\ [][NextLoad]_vars

(* C20: startup with a corrupt or missing stored collection gives an empty    *)
(* collection and a running application; loading never fails.                *)
C20_LoadNeverFails ==
    [][(phase = "mounting" /\ phase' # "mounting" /\ storedTasks.kind # "array")
          => (phase' = "running" /\ tasks' = <<>>)]_vars

-----------------------------------------------------------------------------
(* Delete, the week anchor and the order by time *)

\* how many times arr holds x
countOf(arr, x) == Cardinality({k \in 1..Len(arr) : arr[k] = x})

(* C21: a confirmed delete of task t for date d leaves d in t.hiddenDates     *)
(* exactly once and takes d out of t.completions.                             *)
C21_HideForDate ==
    [][(deleteModalId # 0 /\ deleteModalId' = 0 /\ tasks' # tasks) =>
          \A k \in 1..Len(tasks') :
              tasks'[k].id = deleteModalId =>
                  /\ countOf(tasks'[k].hiddenDates, targetDate) = 1
                  /\ ~includes(tasks'[k].completions, targetDate)]_vars

\* the start of the 7-day loop in week mode: selectedDate in App.tsx, viewStart
\* (effectiveViewDate) in part_000 and part_001
weekStart == IF revision = "App" THEN selectedDate ELSE effectiveViewDate

(* C22: whenever the current view is week, the anchor date of the filter, the *)
(* sort, the percentage, and of toggle, delete and move is today, whatever    *)
(* was selected before and however far the clock has moved since.             *)
C22_WeekAnchorIsToday ==
    currentView = "week" =>
        /\ weekStart = todayStr
        /\ percentageDate = todayStr
        /\ targetDate = todayStr
        /\ sortedVisibleTasks =
              sortedVisibleOf(revision, tasks, "week", todayStr, <<>>, todayStr)

(* C23: within one effective sort date the list is ordered by time ascending, *)
(* an absent time counting as 23:59, so every untimed task comes after all    *)
(* timed tasks of that date; equal times are ordered by id ascending.         *)
C23_TimeThenId ==
    listShown =>
        \A a, b \in 1..Len(sortedVisibleTasks) :
            LET x == sortedVisibleTasks[a]
                y == sortedVisibleTasks[b]
            IN  (a < b /\ getSortDate(revision, x, sortViewStart)
                            = getSortDate(revision, y, sortViewStart)) =>
                    /\ StrLE(timeOrLast(x), timeOrLast(y))
                    /\ timeOrLast(x) = timeOrLast(y) => x.id < y.id
                    /\ ~(x.time = <<>> /\ y.time # <<>>)

(* The type of a task and its day of the week *)

\* App.tsx updateTaskType: the type selector of a listed task
updateTaskType(id, type) ==
    /\ revision = "App"
    /\ noModal
    /\ listShown
    /\ tasks' = mapId(tasks, id,
                      [k \in 1..Len(tasks) |->
                          [tasks[k] EXCEPT
                              !.type = type,
                              !.weeklyDay = IF type = "weekly" /\ tasks[k].weeklyDay = -1
                                            THEN getDay(clock)
                                            ELSE tasks[k].weeklyDay]])
    /\ tasks' # tasks
    /\ UNCHANGED <<sysVars, revision, clock, nowMs, selectedDate, currentView,
                   historyDrilldownDate, deleteModalId, moveModalId, editingTask,
                   undoAction>>

\* the position of a type in ['one-time', 'recurring', 'weekly'] (0-based)
typeIndex(type) == IF type = "one-time" THEN 0 ELSE IF type = "recurring" THEN 1 ELSE 2

typeAt(idx) == IF idx = 0 THEN "one-time" ELSE IF idx = 1 THEN "recurring" ELSE "weekly"

\* App.tsx cycleType: the type badge of a listed task steps to the next type
cycleType(id) ==
    /\ revision = "App"
    /\ noModal
    /\ listShown
    /\ tasks' = mapId(tasks, id,
                      [k \in 1..Len(tasks) |->
                          LET nextType == typeAt((typeIndex(tasks[k].type) + 1) % 3)
                          IN  [tasks[k] EXCEPT
                                  !.type = nextType,
                                  !.weeklyDay = IF nextType = "weekly"
                                                   /\ tasks[k].weeklyDay = -1
                                                THEN getDay(clock)
                                                ELSE tasks[k].weeklyDay]])
    /\ UNCHANGED <<sysVars, revision, clock, nowMs, selectedDate, currentView,
                   historyDrilldownDate, deleteModalId, moveModalId, editingTask,
                   undoAction>>

\* App.tsx updateWeeklyDay: the day selector of a listed weekly task
updateWeeklyDay(id, day) ==
    /\ revision = "App"
    /\ noModal
    /\ listShown
    /\ \E k \in 1..Len(tasks) : tasks[k].id = id /\ tasks[k].type = "weekly"
    /\ tasks' = mapId(tasks, id,
                      [k \in 1..Len(tasks) |-> [tasks[k] EXCEPT !.weeklyDay = day]])
    /\ tasks' # tasks
    /\ UNCHANGED <<sysVars, revision, clock, nowMs, selectedDate, currentView,
                   historyDrilldownDate, deleteModalId, moveModalId, editingTask,
                   undoAction>>

\* the collections found under 'pro_tasks': one task as App.tsx addTask saves it
\* (weeklyDay only on a weekly task; JSON.stringify drops an undefined field)
\* or as the draft of part_000 / part_001 saves it (weeklyDay always set)
TypeTasks ==
    {t \in [id : {1}, text : {"task"}, type : TASK_TYPES,
            weeklyDay : WeeklyDayChoices \cup {-1}, time : {<<>>},
            dateCreated : {StartDate}, completions : {<<>>}, hiddenDates : {<<>>}] :
        t.type = "weekly" => t.weeklyDay # -1}

InitType ==
    /\ revision \in Revisions
    /\ clock = parseLocalDate(StartDate)
    /\ nowMs = 2
    /\ \E t \in TypeTasks : tasks = <<t>>
    /\ selectedDate = getLocalISO(parseLocalDate(StartDate))
    /\ currentView = "day"
    /\ historyDrilldownDate = <<>>
    /\ deleteModalId = 0
    /\ moveModalId = 0
    /\ editingTask = <<>>
    /\ undoAction = <<>>
    /\ storedTasks = savedItem
    /\ mounted

NextType ==
    \/ Midnight
    \/ \E offset \in {0, 1} : setViewDate("day", offset)
    \/ \E k \in 1..Len(visible), type \in TASK_TYPES : updateTaskType(visible[k].id, type)
    \/ \E k \in 1..Len(visible) : cycleType(visible[k].id)
    \/ \E k \in 1..Len(visible), day \in WeeklyDayChoices \cup {5} :
          updateWeeklyDay(visible[k].id, day)
    \/ \E k \in 1..Len(visible) : onEdit(k)
    \/ \E value \in TASK_TYPES : onChangeType(value)
    \/ \E value \in WeeklyDayChoices \cup {5} : onChangeWeeklyDay(value)
    \/ onClose(MaxTasks)

SpecType == InitType /\ [][NextType]_vars

(* C29: every task of type weekly in the collection has a weeklyDay in 0..6,  *)
(* because changing a type to weekly assigns the current day of the week when *)
(* none is set; changing away from weekly keeps weeklyDay.                    *)
C29_WeeklyHasDay ==
    \A k \in 1..Len(tasks) : tasks[k].type = "weekly" => tasks[k].weeklyDay \in 0..6

-----------------------------------------------------------------------------
(* The effects of a firing alarm: the sound loop, the 60 s timer, the wake  *)
(* lock, the alert and the system notification                              *)

\* the rest of triggerAlarm once the wake lock request of the h-th alarm is
\* settled: setActiveAlert(task), and the system notification where permitted;
\* a component that was unmounted keeps no state
afterRequest(h, t, settled) ==
    /\ activeAlert' = IF phase = "running" THEN <<t>> ELSE activeAlert
    /\ host' = [settled EXCEPT !.requests = @ \ {<<h, t>>},
                               !.alerted = @ \cup {h},
                               !.notifications = IF capabilities.notification
                                                 THEN @ \cup {h} ELSE @]

\* navigator.wakeLock.request('screen') of the h-th alarm resolves: the
\* sentinel is held; part_001 stores it in wakeLockRef, part_000 drops it
granted(h) ==
    /\ ~suspended
    /\ \E r \in host.requests :
          /\ r[1] = h
          /\ afterRequest(h, r[2], [host EXCEPT !.held = @ \cup {h}])
    /\ wakeLockRef' = IF revision = "part_001" THEN h ELSE wakeLockRef
    /\ UNCHANGED <<revision, clock, nowMs, tasks, selectedDate, currentView,
                   historyDrilldownDate, deleteModalId, moveModalId, editingTask,
                   undoAction, storedTasks, phase, currentHM, suspended, ticked,
                   notifiedTasksRef, alarmLog, worker, capabilities, stopAlarmRef>>

\* the request rejects (no permission, a hidden document): the catch logs it
rejected(h) ==
    /\ ~suspended
    /\ \E r \in host.requests : r[1] = h /\ afterRequest(h, r[2], host)
    /\ UNCHANGED <<revision, clock, nowMs, tasks, selectedDate, currentView,
                   historyDrilldownDate, deleteModalId, moveModalId, editingTask,
                   undoAction, storedTasks, phase, currentHM, suspended, ticked,
                   notifiedTasksRef, alarmLog, worker, capabilities, stopAlarmRef,
                   wakeLockRef>>

\* the 60 s timer of the h-th alarm, stopping whatever loop is current
autoStop_noIdentity(h) ==
    /\ ~suspended
    /\ h \in host.timers
    /\ stopAlarmRef' = 0
    /\ host' = [host EXCEPT !.timers = @ \ {h},
                            !.playing = @ \ {stopAlarmRef},
                            !.overtaken = IF stopAlarmRef \notin {0, h}
                                          THEN @ \cup {h} ELSE @]
    /\ UNCHANGED <<revision, clock, nowMs, tasks, selectedDate, currentView,
                   historyDrilldownDate, deleteModalId, moveModalId, editingTask,
                   undoAction, storedTasks, phase, currentHM, suspended, ticked,
                   notifiedTasksRef, activeAlert, alarmLog, worker, capabilities,
                   wakeLockRef>>

\* the 60 s timer of the h-th alarm expires:
\* if (stopAlarmRef.current === stopFn) { stopFn(); stopAlarmRef.current = null; }
\* overtaken records the timers that found another loop current
autoStop(h) ==
    /\ ~suspended
    /\ h \in host.timers
    /\ stopAlarmRef' = IF stopAlarmRef = h THEN 0 ELSE stopAlarmRef
    /\ host' = [host EXCEPT !.timers = @ \ {h},
                            !.playing = IF stopAlarmRef = h THEN @ \ {h} ELSE @,
                            !.overtaken = IF stopAlarmRef \notin {0, h}
                                          THEN @ \cup {h} ELSE @]
    /\ UNCHANGED <<revision, clock, nowMs, tasks, selectedDate, currentView,
                   historyDrilldownDate, deleteModalId, moveModalId, editingTask,
                   undoAction, storedTasks, phase, currentHM, suspended, ticked,
                   notifiedTasksRef, activeAlert, alarmLog, worker, capabilities,
                   wakeLockRef>>

\* part_001: release() of the sentinel w is settled:
\* .then(() => wakeLockRef.current = null)
released(w) ==
    /\ ~suspended
    /\ w \in host.releasing
    /\ host' = [host EXCEPT !.releasing = @ \ {w}]
    /\ wakeLockRef' = 0
    /\ UNCHANGED <<revision, clock, nowMs, tasks, selectedDate, currentView,
                   historyDrilldownDate, deleteModalId, moveModalId, editingTask,
                   undoAction, storedTasks, phase, currentHM, suspended, ticked,
                   notifiedTasksRef, activeAlert, alarmLog, worker, capabilities,
                   stopAlarmRef>>

\* the component is unmounted: the cleanup of the init effect terminates the
\* worker (App.tsx clears its interval); part_001 releases the sentinel it
\* holds a reference to. The state of the component is gone; the refs, the
\* timers and the pending requests are not touched.
teardown ==
    /\ phase = "running"
    /\ phase' = "unmounted"
    /\ activeAlert' = <<>>
    /\ host' = IF revision = "part_001" /\ wakeLockRef # 0
               THEN [host EXCEPT !.held = @ \ {wakeLockRef}]
               ELSE host
    /\ UNCHANGED <<revision, clock, nowMs, tasks, selectedDate, currentView,
                   historyDrilldownDate, deleteModalId, moveModalId, editingTask,
                   undoAction, storedTasks, currentHM, suspended, ticked,
                   notifiedTasksRef, alarmLog, worker, capabilities, stopAlarmRef,
                   wakeLockRef>>

\* what the browser may offer
Capabilities == [audio : BOOLEAN, wakeLock : BOOLEAN, notification : BOOLEAN]

\* the times of the stored tasks: both at 09:00, or one a minute later
FiringTimes == {<<9, 0>>, <<9, 1>>}

\* loadTasks(): two open tasks of today, one at 09:00
FiringTasks ==
    {<<[id |-> 1, text |-> "task", type |-> "one-time", weeklyDay |-> -1,
        time |-> <<9, 0>>, dateCreated |-> StartDate, completions |-> <<>>,
        hiddenDates |-> <<>>],
       [id |-> 2, text |-> "task", type |-> "one-time", weeklyDay |-> -1,
        time |-> time, dateCreated |-> StartDate, completions |-> <<>>,
        hiddenDates |-> <<>>]>> : time \in FiringTimes}

InitFiring ==
    /\ revision \in Revisions
    /\ clock = parseLocalDate(StartDate)
    /\ nowMs = 3
    /\ tasks \in FiringTasks
    /\ selectedDate = getLocalISO(parseLocalDate(StartDate))
    /\ currentView = "day"
    /\ historyDrilldownDate = <<>>
    /\ deleteModalId = 0
    /\ moveModalId = 0
    /\ editingTask = <<>>
    /\ undoAction = <<>>
    /\ storedTasks = savedItem
    /\ phase = "running"
    /\ currentHM = StartHM
    /\ suspended = FALSE
    /\ ticked = FALSE
    /\ notifiedTasksRef = {}
    /\ activeAlert = <<>>
    /\ alarmLog = <<>>
    /\ worker = workerIdle
    /\ capabilities \in Capabilities
    /\ silent

NextFiring ==
    \/ tick
    \/ Minute
    \/ dismissAlarm
    \/ markActiveAlertDone
    \/ \E h \in 1..Len(alarmLog) : granted(h)
    \/ \E h \in 1..Len(alarmLog) : rejected(h)
    \/ \E h \in 1..Len(alarmLog) : autoStop(h)
    \/ \E w \in 1..Len(alarmLog) : released(w)
    \/ teardown
    \/ phase = "running" /\ \E offset \in {0, 1} : setViewDate("day", offset)

SpecFiring == InitFiring /\ [][NextFiring]_vars

(* C24: the Done button of the alert dismisses the alert and completes the    *)
(* task for today, in whatever view and selected date the user is in: after   *)
(* the step today is in the task's completions and no other date was added.   *)
C24_DoneCompletesToday ==
    [][(activeAlert # <<>> /\ activeAlert' = <<>> /\ tasks' # tasks) =>
          \A k \in 1..Len(tasks') :
              tasks'[k].id = activeAlert[1].id =>
                  /\ includes(tasks'[k].completions, todayStr)
                  /\ \A i \in 1..Len(tasks'[k].completions) :
                        \/ tasks'[k].completions[i] = todayStr
                        \/ includes(tasks[k].completions, tasks'[k].completions[i])]_vars

(* C25: every firing returns to idle. Once the 60 s timer of every alarm has  *)
(* expired and no request is pending, no loop is playing and no alert is      *)
(* active, whether the user dismissed the alert or not.                       *)
C25_ReturnsToIdle ==
    (alarmLog # <<>> /\ host.timers = {} /\ host.requests = {}) =>
        (host.playing = {} /\ activeAlert = <<>>)

(* C26: the stay-awake hint is released on every exit path. With no request   *)
(* pending, once the alert is dismissed, the sound has timed out or the       *)
(* component is unmounted, no sentinel acquired by an alarm is still held.    *)
C26_WakeLockReleased ==
    (host.requests = {} /\ (activeAlert = <<>> \/ host.playing = {} \/ phase = "unmounted"))
        => host.held = {}

(* C27: the 60 s timer of an alarm A acts only if A's stop function is still  *)
(* the current one. When the timer expires while another stop function is    *)
(* current, or none, the loops playing and the current stop function are      *)
(* left as they are: the loop of a later alarm B keeps playing.               *)
C27_AutoStopByIdentity ==
    [][\A h \in host.timers :
          (h \notin host'.timers /\ stopAlarmRef # h) =>
              (host'.playing = host.playing /\ stopAlarmRef' = stopAlarmRef)]_vars

\* the timer of the first alarm expired while the loop of the second was the
\* current one, and that loop is still playing under its stop function
C27_Witness ==
    /\ 1 \in host.overtaken
    /\ stopAlarmRef = 2
    /\ host.playing = {2}

\* the h-th alarm was raised for t and its alert was set, or is waiting for the
\* wake lock request to be settled; the system notification was shown with the
\* alert where it is permitted
alertRaised(t) ==
    \E h \in 1..Len(alarmLog) :
        /\ alarmLog[h] = notificationKey(t)
        /\ \/ \E r \in host.requests : r[1] = h
           \/ /\ h \in host.alerted
              /\ capabilities.notification => h \in host.notifications

(* C28: capability failures are not fatal to a firing. After a tick, every    *)
(* task that is due today, open and timed at the current minute has its key   *)
(* recorded and its alert raised, whether or not the audio output could be    *)
(* created, the wake lock request failed or the notification is permitted.    *)
C28_FailuresNonFatal ==
    (ticked /\ phase = "running") =>
        \A k \in 1..Len(tasks) :
            (/\ shouldShowTask(tasks[k], todayStr, todayStr)
             /\ ~includes(tasks[k].completions, todayStr)
             /\ tasks[k].time = currentHM)
                => (notificationKey(tasks[k]) \in notifiedTasksRef /\ alertRaised(tasks[k]))

(* C30: at most one alarm loop is playing in every reachable state, and it is *)
(* the one the current stop function stops, also when two tasks fire on the   *)
(* same tick or a task fires while an earlier alert is undismissed; once the  *)
(* firings are through, an active alert carries the task fired last.          *)
C30_OneLoop ==
    /\ Cardinality(host.playing) <= 1
    /\ host.playing \subseteq {stopAlarmRef}
    /\ (alarmLog # <<>> /\ host.requests = {} /\ activeAlert # <<>>) =>
          activeAlert[1].id = alarmLog[Len(alarmLog)][1]

====
